---- MODULE Spec2Model ----
(***************************************************************************)
(* wginit: the orchestration state machine of src/src/lib.rs.              *)
(*                                                                         *)
(* WinitApplicationHandler owns an optional window, an optional wgpu       *)
(* bundle and a suspend counter.  The host event loop (winit) calls its    *)
(* handlers one at a time on the loop thread; the only other activity is   *)
(* the asynchronous build of a bundle (Wgpu::new), whose result comes back *)
(* through the event loop proxy as a WgpuReady user event.                 *)
(***************************************************************************)
EXTENDS Naturals, Sequences, FiniteSets

VARIABLES
    platform,        \* "native" (pollster::block_on) or "wasm" (spawn_local)
    window,          \* WinitApplicationHandler.window : Option<Arc<Window>>
    wgpu,            \* WinitApplicationHandler.wgpu : Option<Wgpu>
    suspend_count,   \* WinitApplicationHandler.suspend_count : u64
    proxy,           \* user events sent through the EventLoopProxy, not yet handled
    inflight,        \* wasm: spawned builds that have not completed yet
    inner_size,      \* the window's inner size (window.inner_size())
    loop,            \* "running", or "exited" once the exiting handler has run
    crashed,         \* "no", or the expect/unwrap/assert that terminated the process
    sent,            \* result of the last UserEventSender::send_event
    event,           \* the step handled last
    calls,           \* what that step called, in order: callbacks and effects
    n_resumes,       \* history: resume signals handled (= builds launched)
    n_suspends,      \* history: suspend signals handled
    n_sends,         \* history: custom events submitted
    windows_created, \* history: create_window calls that returned a window
    last_lifecycle,  \* history: the most recent of resume / suspend / ready
    ready_since,     \* history: a WgpuReady was handled after the last suspend
    installed        \* history: <<id, suspend_count>> of bundles handed to callbacks

vars == << platform, window, wgpu, suspend_count, proxy, inflight, inner_size,
           loop, crashed, sent, event, calls, n_resumes,
           n_suspends, n_sends, windows_created, last_lifecycle, ready_since,
           installed >>

(***************************************************************************)
(* Bounds of the model.                                                    *)
(***************************************************************************)
MaxBuilds == 2      \* resume signals per run (lifecycle specification)
MaxSuspends == 2    \* suspend signals per run (lifecycle specification)
MaxSends == 1       \* custom events submitted per run
MaxDim == 2         \* largest window width / height
SizeBuilds == 1     \* resume signals per run (size specification)
SizeSuspends == 1   \* suspend signals per run (size and fair specifications)

\* The lifecycle specification gives the window one size.
LifeBounds ==
    [builds |-> MaxBuilds, suspends |-> MaxSuspends, sends |-> MaxSends,
     dims |-> {MaxDim}]

\* The size specification draws every size up to MaxDim and keeps runs short.
SizeBounds ==
    [builds |-> SizeBuilds, suspends |-> SizeSuspends, dims |-> 0 .. MaxDim]

\* The fair specification keeps the lifecycle's resumes and fewer suspends.
FairBounds ==
    [builds |-> MaxBuilds, suspends |-> SizeSuspends, sends |-> MaxSends,
     dims |-> {MaxDim}]

\* The scenario: the window is resized to 800 x 600; it is created with any
\* size over the scenario's dimensions.
ScenarioSize == << 800, 600 >>

ScenarioDims == {0, 1, 600, 800}

ScenarioBounds ==
    [builds |-> MaxBuilds, suspends |-> SizeSuspends, dims |-> ScenarioDims]

Sizes(B) == B.dims \X B.dims

Payloads == {1, 2}

(***************************************************************************)
(* Option<T>.                                                              *)
(***************************************************************************)
None == << >>
Some(x) == << x >>
IsSome(o) == o # << >>
Unwrap(o) == o[1]

Max(a, b) == IF a >= b THEN a ELSE b

(***************************************************************************)
(* ApplicationHandler::surface_configuration, the default policy.          *)
(***************************************************************************)
\* Faulty variant: the size is passed on unclamped.
surface_configuration_unclamped(size) == size

surface_configuration(size) == << Max(size[1], 1), Max(size[2], 1) >>

(***************************************************************************)
(* Wgpu::new: the bundle built for a window of inner size `size`.          *)
(* `id` and `epoch` are history: the build's number and the number of      *)
(* suspend signals handled when it was launched.                           *)
(***************************************************************************)
\* Faulty variant: the bundle does not take the counter it is given.
Wgpu_new_untagged(id, count, epoch, size) ==
    [id |-> id, suspend_count |-> 0, epoch |-> epoch,
     config |-> surface_configuration(size)]

Wgpu_new(id, count, epoch, size) ==
    [id |-> id, suspend_count |-> count, epoch |-> epoch,
     config |-> surface_configuration(size)]

\* UserEvent<C>
WgpuReady(b) == [type |-> "WgpuReady", wgpu |-> Some(b), e |-> 0]
Custom(e) == [type |-> "Custom", wgpu |-> None, e |-> e]

\* One entry of `calls`: an application callback with the Context it is given
\* (Context::new), or an effect on the window or the surface.
Call(cb, win, gpu, arg) == [cb |-> cb, window |-> win, wgpu |-> gpu, arg |-> arg]

Event(ev, arg) == [ev |-> ev, arg |-> arg]

Init ==
    /\ platform \in {"native", "wasm"}
    /\ window = None
    /\ wgpu = None
    /\ suspend_count = 0
    /\ proxy = << >>
    /\ inflight = {}
    /\ inner_size = << 0, 0 >>     \* no window yet: set when it is created
    /\ loop = "running"
    /\ crashed = "no"
    /\ sent = None
    /\ event = Event("init", << >>)
    /\ calls = << >>
    /\ n_resumes = 0
    /\ n_suspends = 0
    /\ n_sends = 0
    /\ windows_created = 0
    /\ last_lifecycle = "none"
    /\ ready_since = FALSE
    /\ installed = {}

\* Faulty variant: the loop goes on dispatching after the exiting handler.
Dispatching_after_exit == crashed = "no"

\* The loop thread is dispatching: the process is alive and run_app has not
\* returned.
Dispatching == crashed = "no" /\ loop = "running"

history ==
    << n_resumes, n_suspends, n_sends, windows_created, last_lifecycle,
       ready_since, installed >>

\* Faulty variant: the Context withholds the bundle.
Ctx_without_wgpu(cb, arg) == Call(cb, window, None, arg)

\* Context::new over the handler's current slots.
Ctx(cb, arg) == Call(cb, window, wgpu, arg)

(***************************************************************************)
(* resumed: create the window or reuse it, then launch a build tagged with *)
(* the suspend counter.  Native: block_on runs the build to its end inside *)
(* the handler, so the WgpuReady message is in the proxy when it returns.  *)
(* Wasm: spawn_local leaves the build in flight (build_complete); its tag   *)
(* is the counter's value as the build is launched.                        *)
(*                                                                         *)
(* win_ok / build_ok: whether create_window and the adapter and device     *)
(* requests succeed; each failure is an expect that ends the process.      *)
(***************************************************************************)
\* Faulty variants: a window created on every resume signal; a window created
\* but not stored in the slot.
get_or_insert_with_always(w, new) == Some(new)

get_or_insert_with_unstored(w, new) == w

get_or_insert_with(w, new) == IF IsSome(w) THEN w ELSE Some(new)

resumed(B) ==
    /\ Dispatching
    /\ n_resumes < B.builds
    /\ \E sz \in Sizes(B), win_ok \in BOOLEAN, build_ok \in BOOLEAN :
        LET creating == ~IsSome(window)
            id == n_resumes + 1
            size == IF creating THEN sz ELSE inner_size
            built == Wgpu_new(id, suspend_count, n_suspends, size)
        IN  /\ event' = Event("resumed", << >>)
            /\ n_resumes' = id
            /\ last_lifecycle' = "resume"
            /\ UNCHANGED << platform, wgpu, suspend_count, loop,
                            sent, n_suspends, n_sends, ready_since, installed >>
            /\ IF creating /\ ~win_ok
               THEN /\ crashed' = "create_window"
                    /\ calls' = << >>
                    /\ UNCHANGED << window, inner_size, windows_created, proxy, inflight >>
               ELSE /\ window' = get_or_insert_with(window, windows_created + 1)
                    /\ inner_size' = size
                    /\ windows_created' = IF window' # window THEN windows_created + 1
                                                            ELSE windows_created
                    /\ IF platform = "wasm"
                       THEN /\ inflight' = inflight \cup
                                   {[id |-> id, suspend_count |-> suspend_count,
                                     epoch |-> n_suspends]}
                            /\ calls' = << >>
                            /\ UNCHANGED << proxy, crashed >>
                       ELSE IF build_ok
                       THEN /\ proxy' = Append(proxy, WgpuReady(built))
                            /\ calls' = << Call("configure", window', Some(built), size) >>
                            /\ UNCHANGED << inflight, crashed >>
                       ELSE /\ crashed' = "build"
                            /\ calls' = << >>
                            /\ UNCHANGED << proxy, inflight >>

(***************************************************************************)
(* Wasm only: a spawned build runs to its end.  It reads the window's      *)
(* inner size when it configures the surface, then sends WgpuReady; the    *)
(* send is asserted to succeed, so a build that ends after the loop has    *)
(* shut down ends the process.                                             *)
(***************************************************************************)
\* Faulty variant: a failed send of the ready message is ignored.
ready_send_assert_ignored(ok) == "no"

\* assert!(send_event(WgpuReady(..)).is_ok()): the process goes on when the
\* send succeeded and panics when it failed.
ready_send_assert(ok) == IF ok THEN "no" ELSE "ready_send"

build_complete ==
    /\ crashed = "no"
    /\ \E b \in inflight, build_ok \in BOOLEAN :
        LET built == Wgpu_new(b.id, b.suspend_count, b.epoch, inner_size)
        IN  /\ inflight' = inflight \ {b}
            /\ event' = Event("build_complete", << >>)
            /\ UNCHANGED << platform, window, wgpu, suspend_count, inner_size,
                            loop, sent, history >>
            /\ IF ~build_ok
               THEN /\ crashed' = "build"
                    /\ calls' = << >>
                    /\ UNCHANGED proxy
               ELSE IF loop = "running"
               THEN /\ proxy' = Append(proxy, WgpuReady(built))
                    /\ calls' = << Call("configure", window, Some(built), inner_size) >>
                    /\ crashed' = ready_send_assert(TRUE)
               ELSE /\ crashed' = ready_send_assert(FALSE)
                    /\ calls' = << Call("configure", window, Some(built), inner_size) >>
                    /\ UNCHANGED proxy

(***************************************************************************)
(* suspended: drop the bundle, count the suspend, tell the application.    *)
(* The host emits a resume signal first, so a suspend signal follows one.  *)
(***************************************************************************)
\* Faulty variant: the bundle survives the suspend.
suspended_wgpu_kept(g) == g

suspended_wgpu(g) == None

\* Faulty variant: the suspend is not counted.
suspended_count_kept(c) == c

suspended_count(c) == c + 1

\* The application's suspended callback, given the slots as they are after
\* the drop and the increment; the entry notes the counter's value then.
suspended_calls(win, gpu, count) == << Call("suspended", win, gpu, << count >>) >>

suspended(B) ==
    /\ Dispatching
    /\ n_resumes > 0
    /\ n_suspends < B.suspends
    /\ wgpu' = suspended_wgpu(wgpu)
    /\ suspend_count' = suspended_count(suspend_count)
    /\ event' = Event("suspended", << >>)
    /\ calls' = suspended_calls(window, wgpu', suspend_count')
    /\ n_suspends' = n_suspends + 1
    /\ last_lifecycle' = "suspend"
    /\ ready_since' = FALSE
    /\ UNCHANGED << platform, window, proxy, inflight, inner_size, loop,
                    crashed, sent, n_resumes, n_sends, windows_created,
                    installed >>

(***************************************************************************)
(* user_event: the loop hands over the oldest message of the proxy.        *)
(***************************************************************************)
\* Faulty variant: a bundle already installed is kept.
user_event_ready_wgpu_kept(old, b) == IF IsSome(old) THEN old ELSE Some(b)

\* self.wgpu = Some(wgpu): the delivered bundle replaces the slot's content.
user_event_ready_wgpu(old, b) == Some(b)

user_event_ready ==
    /\ Dispatching
    /\ proxy # << >>
    /\ Head(proxy).type = "WgpuReady"
    /\ LET b == Unwrap(Head(proxy).wgpu)
       IN  /\ proxy' = Tail(proxy)
           /\ event' = Event("user_event", << >>)
           /\ UNCHANGED << platform, window, suspend_count, inflight, inner_size,
                           loop, sent, n_resumes, n_suspends, n_sends,
                           windows_created >>
           /\ IF ~IsSome(window)
              THEN /\ crashed' = "window_unwrap"
                   /\ calls' = << >>
                   /\ UNCHANGED << wgpu, last_lifecycle,
                                   ready_since, installed >>
              ELSE /\ wgpu' = user_event_ready_wgpu(wgpu, b)
                   /\ calls' = << Call("resumed", window, wgpu', << >>),
                                  Call("request_redraw", window, None, << >>) >>
                   /\ last_lifecycle' = "ready"
                   /\ ready_since' = TRUE
                   /\ installed' = installed \cup {<< b.id, b.suspend_count >>}
                   /\ UNCHANGED crashed

user_event_custom ==
    /\ Dispatching
    /\ proxy # << >>
    /\ Head(proxy).type = "Custom"
    /\ proxy' = Tail(proxy)
    /\ event' = Event("user_event", << Head(proxy).e >>)
    /\ calls' = << Ctx("user_event", << Head(proxy).e >>) >>
    /\ UNCHANGED << platform, window, wgpu, suspend_count, inflight, inner_size,
                    loop, crashed, sent, history >>


(***************************************************************************)
(* window_event.  The host delivers window events for the window the       *)
(* handler created (the event's WindowId), so only once it exists.         *)
(* A Resized event reports the window's new inner size.                    *)
(*                                                                         *)
(* window_event_calls: what the handler does, in order, for event `kind`   *)
(* (with `size` for Resized).  Both built-in arms leave the handler with a *)
(* return when the bundle is absent, before the generic callback.          *)
(***************************************************************************)
\* Faulty variant: redraw is dispatched without looking at the bundle.
window_event_calls_unguarded(win, gpu, kind, size) ==
    LET forward == << Call("window_event", win, gpu, << kind >>) >>
    IN  CASE kind = "Resized" ->
                IF ~IsSome(gpu) THEN << >>
                ELSE << Call("configure", win, gpu, size),
                        Call("request_redraw", win, None, << >>) >> \o forward
          [] kind = "RedrawRequested" ->
                << Call("redraw", win, gpu, << >>) >> \o forward
          [] OTHER -> forward

\* Faulty variant: the generic callback runs before the built-in handling.
window_event_calls_forward_first(win, gpu, kind, size) ==
    LET forward == << Call("window_event", win, gpu, << kind >>) >>
    IN  CASE kind = "Resized" ->
                IF ~IsSome(gpu) THEN << >>
                ELSE forward \o << Call("configure", win, gpu, size),
                                   Call("request_redraw", win, None, << >>) >>
          [] kind = "RedrawRequested" ->
                IF ~IsSome(gpu) THEN << >>
                ELSE forward \o << Call("redraw", win, gpu, << >>) >>
          [] OTHER -> forward

window_event_calls(win, gpu, kind, size) ==
    LET forward == << Call("window_event", win, gpu, << kind >>) >>
    IN  CASE kind = "Resized" ->
                IF ~IsSome(gpu) THEN << >>
                ELSE << Call("configure", win, gpu, size),
                        Call("request_redraw", win, None, << >>) >> \o forward
          [] kind = "RedrawRequested" ->
                IF ~IsSome(gpu) THEN << >>
                ELSE << Call("redraw", win, gpu, << >>) >> \o forward
          [] OTHER -> forward

\* The bundle after the handler: Resized reconfigures the surface of a
\* present bundle.
window_event_wgpu(gpu, kind, size) ==
    IF kind = "Resized" /\ IsSome(gpu)
    THEN Some([Unwrap(gpu) EXCEPT !.config = surface_configuration(size)])
    ELSE gpu

\* Resized(size), RedrawRequested, and CloseRequested for every other event.
WindowEvents(B) ==
    {<< "Resized", sz >> : sz \in Sizes(B)}
        \cup {<< "RedrawRequested", << >> >>, << "CloseRequested", << >> >>}

\* The handler on one window event `we`.
window_event_of(we) ==
    /\ Dispatching
    /\ IsSome(window)
    /\ LET kind == we[1]
           size == IF kind = "Resized" THEN we[2] ELSE inner_size
       IN  /\ event' = Event(kind, we[2])
           /\ inner_size' = size
           /\ wgpu' = window_event_wgpu(wgpu, kind, size)
           /\ calls' = window_event_calls(window, wgpu', kind, size)
           /\ UNCHANGED << platform, window, suspend_count, proxy, inflight, loop,
                           crashed, sent, history >>

window_event(B) == \E we \in WindowEvents(B) : window_event_of(we)

(***************************************************************************)
(* The handlers that only forward to the application.                      *)
(* new_events passes the event loop and the start cause, no Context.       *)
(***************************************************************************)
Forward(ev, cs) ==
    /\ Dispatching
    /\ event' = Event(ev, << >>)
    /\ calls' = cs
    /\ UNCHANGED << platform, window, wgpu, suspend_count, proxy, inflight,
                    inner_size, loop, crashed, sent, history >>

memory_warning == Forward("memory_warning", << Ctx("memory_warning", << >>) >>)

new_events == Forward("new_events", << Call("new_events", None, None, << >>) >>)

about_to_wait == Forward("about_to_wait", << Ctx("about_to_wait", << >>) >>)

device_event == Forward("device_event", << Ctx("device_event", << >>) >>)

(***************************************************************************)
(* exiting: the last handler the loop calls; run_app returns after it and  *)
(* the proxy is closed from then on.                                       *)
(***************************************************************************)
exiting ==
    /\ Dispatching
    /\ loop' = "exited"
    /\ event' = Event("exiting", << >>)
    /\ calls' = << Ctx("exiting", << >>) >>
    /\ UNCHANGED << platform, window, wgpu, suspend_count, proxy, inflight,
                    inner_size, crashed, sent, history >>

(***************************************************************************)
(* UserEventSender::send_event, called by the application from anywhere.   *)
(* A closed loop gives the event back in the error.                        *)
(***************************************************************************)
\* Faulty variant: the closed loop goes unreported.
send_event_result_swallowed(alive, e) == [ok |-> TRUE, e |-> e]

\* Ok(()) from an open loop; EventLoopClosed(e), with the event, otherwise.
send_event_result(alive, e) == [ok |-> alive, e |-> e]

send_event(B) ==
    /\ crashed = "no"
    /\ n_sends < B.sends
    /\ \E e \in Payloads :
        /\ n_sends' = n_sends + 1
        /\ event' = Event("send_event", << e >>)
        /\ calls' = << >>
        /\ IF loop = "running"
           THEN /\ proxy' = Append(proxy, Custom(e))
                /\ sent' = Some(send_event_result(TRUE, e))
           ELSE /\ sent' = Some(send_event_result(FALSE, e))
                /\ UNCHANGED proxy
        /\ UNCHANGED << platform, window, wgpu, suspend_count, inflight, inner_size,
                        loop, crashed, n_resumes, n_suspends,
                        windows_created, last_lifecycle, ready_since, installed >>

\* The steps that build, install, drop or reconfigure a bundle.
BundleStep(B) ==
    \/ resumed(B)
    \/ build_complete
    \/ suspended(B)
    \/ user_event_ready
    \/ window_event(B)

Next ==
    \/ BundleStep(LifeBounds)
    \/ user_event_custom
    \/ memory_warning
    \/ new_events
    \/ about_to_wait
    \/ device_event
    \/ exiting
    \/ send_event(LifeBounds)

Spec == Init /\ [][Next]_vars

(***************************************************************************)
(* The fair specification, for what is eventually delivered: while the     *)
(* process runs, the loop keeps draining the proxy and the wasm executor   *)
(* keeps running the spawned builds.  It has every step that touches the   *)
(* proxy, the builds, the slots or the loop's life; the handlers left out  *)
(* (memory_warning, new_events, about_to_wait, device_event) only forward. *)
(***************************************************************************)
NextFair ==
    \/ BundleStep(FairBounds)
    \/ user_event_custom
    \/ exiting
    \/ send_event(FairBounds)

SpecFair ==
    /\ Init /\ [][NextFair]_vars
    /\ WF_vars(build_complete)
    /\ WF_vars(user_event_ready)
    /\ WF_vars(user_event_custom)

(***************************************************************************)
(* The scenario specification: resume, ready, Resized(800, 600),           *)
(* RedrawRequested, suspend, resume, ready.  Each signal is enabled once   *)
(* the one before it has been handled.                                     *)
(***************************************************************************)
scenario_resumed ==
    /\ \/ event.ev = "init"
       \/ event.ev = "suspended" /\ n_resumes = 1
    /\ resumed(ScenarioBounds)

scenario_resized ==
    /\ event = Event("user_event", << >>)
    /\ n_suspends = 0
    /\ window_event_of(<< "Resized", ScenarioSize >>)

scenario_redraw ==
    /\ event = Event("Resized", ScenarioSize)
    /\ window_event_of(<< "RedrawRequested", << >> >>)

scenario_suspended ==
    /\ event.ev = "RedrawRequested"
    /\ suspended(ScenarioBounds)

NextScenario ==
    \/ scenario_resumed
    \/ build_complete
    \/ user_event_ready
    \/ scenario_resized
    \/ scenario_redraw
    \/ scenario_suspended

SpecScenario == Init /\ [][NextScenario]_vars

(***************************************************************************)
(* The size specification: the steps that read the window's size or        *)
(* configure a surface, over every size up to MaxDim.                      *)
(***************************************************************************)
NextSizes == BundleStep(SizeBounds)

SpecSizes == Init /\ [][NextSizes]_vars

(***************************************************************************)
(* The claims.                                                             *)
(***************************************************************************)
Called(cb) == {i \in DOMAIN calls : calls[i].cb = cb}

\* C1 as stated: the bundle slot is present exactly when the most recent of
\* the resume, suspend and builder-ready steps was a builder-ready step.
C1_PresentIffLastStepReady == IsSome(wgpu) <=> last_lifecycle = "ready"

\* C1, amended: the bundle slot is present exactly when a builder-ready
\* message has been handled and no suspend signal since (a resume signal
\* leaves the slot as it is); it is absent before the first resume and right
\* after every suspend signal.
C1_PresentIffReadySinceSuspend ==
    /\ IsSome(wgpu) <=> ready_since
    /\ n_resumes = 0 => ~IsSome(wgpu)
    /\ event.ev = "suspended" => ~IsSome(wgpu)

\* A resume signal handled while a bundle installed after a suspend is present.
C1_Witness ==
    /\ last_lifecycle = "resume"
    /\ n_suspends > 0
    /\ IsSome(wgpu)

\* C2: from a suspend signal until the ready message of a build launched
\* after that suspend is handled, the bundle slot is absent: a present bundle
\* was launched after the last suspend signal.
C2_AbsentUntilNextResumeCompletes ==
    IsSome(wgpu) => Unwrap(wgpu).epoch = n_suspends

\* C3: the suspend counter starts at 0 and equals the number of suspend
\* signals handled so far, whatever else was handled in between.
C3_CounterCountsSuspends == suspend_count = n_suspends

C3_Witness ==
    /\ n_suspends = MaxSuspends
    /\ suspend_count = MaxSuspends
    /\ event.ev # "suspended"

\* C4: two distinct bundles handed to the application carry different
\* suspend_count values.
C4_DistinctBundlesDistinctCounts ==
    \A a, b \in installed : a[1] # b[1] => a[2] # b[2]

\* C5: at most one window is ever constructed: a resume signal creates the
\* window only into an empty slot, and the slot keeps that first window.
C5_AtMostOneWindow ==
    /\ windows_created <= 1
    /\ windows_created = 1 => window = Some(1)
    /\ windows_created = 0 => window = None

\* Two resume signals with a suspend signal handled, and one window.
C5_Witness ==
    /\ n_resumes >= 2
    /\ n_suspends >= 1
    /\ windows_created = 1

\* C6: a present bundle implies a present window, and the ready handler's
\* unwrap of the window never fails.
C6_BundleImpliesWindow ==
    /\ IsSome(wgpu) => IsSome(window)
    /\ crashed # "window_unwrap"

\* A ready message handled: the bundle installed beside the window.
C6_Witness ==
    /\ event.ev = "user_event"
    /\ Called("resumed") # {}
    /\ IsSome(wgpu)
    /\ IsSome(window)

\* C7: a redraw-requested event invokes the redraw callback exactly when the
\* bundle is present, once, with the current window and bundle; no other
\* step invokes it.
C7_RedrawIffBundle ==
    /\ event.ev = "RedrawRequested" /\ IsSome(wgpu) =>
          /\ Cardinality(Called("redraw")) = 1
          /\ \A i \in Called("redraw") :
                calls[i].window = window /\ calls[i].wgpu = wgpu
    /\ event.ev = "RedrawRequested" /\ ~IsSome(wgpu) => Called("redraw") = {}
    /\ event.ev # "RedrawRequested" => Called("redraw") = {}

\* A redraw-requested event handled with the bundle present.
C7_Witness ==
    /\ event.ev = "RedrawRequested"
    /\ IsSome(wgpu)
    /\ Called("redraw") # {}

\* C8: every redraw-requested event reaches the generic window-event
\* callback, with or without a bundle, after the redraw callback if any.
C8_RedrawAlwaysForwarded ==
    event.ev = "RedrawRequested" =>
        /\ Called("window_event") # {}
        /\ \A i \in Called("redraw"), j \in Called("window_event") : i < j

\* C9: every resize event reaches the generic window-event callback, with or
\* without a bundle, after the built-in resize handling.
C9_ResizeAlwaysForwarded ==
    event.ev = "Resized" =>
        /\ Called("window_event") # {}
        /\ \A i \in Called("configure") \cup Called("request_redraw"),
              j \in Called("window_event") : i < j

\* C10: every surface configuration the library performs (at construction,
\* from the window's inner size, and on a resize event with a bundle present)
\* uses at least 1 in each dimension and the input where it is at least 1.
Clamped(in, out) ==
    /\ out[1] >= 1 /\ out[2] >= 1
    /\ in[1] >= 1 => out[1] = in[1]
    /\ in[2] >= 1 => out[2] = in[2]

C10_ConfiguredSizeClamped ==
    /\ \A i \in Called("configure") :
          Clamped(calls[i].arg, Unwrap(calls[i].wgpu).config)
    /\ event.ev = "Resized" /\ IsSome(wgpu) =>
          /\ Called("configure") # {}
          /\ Clamped(event.arg, Unwrap(wgpu).config)
    /\ event.ev \in {"resumed", "build_complete"} =>
          \A i \in Called("configure") : calls[i].arg = inner_size

\* A resize to width 0 handled with a bundle present.
C10_Witness ==
    /\ event.ev = "Resized"
    /\ event.arg = << 0, MaxDim >>
    /\ IsSome(wgpu)
    /\ Unwrap(wgpu).config = << 1, MaxDim >>

\* C11: a suspend signal drops the bundle and counts the suspend before the
\* application's suspended callback runs; the callback runs exactly once,
\* with the window available and the bundle not available.
C11_SuspendCallbackAfterDrop ==
    event.ev = "suspended" =>
        /\ wgpu = None
        /\ suspend_count = n_suspends
        /\ Len(calls) = 1
        /\ calls[1].cb = "suspended"
        /\ IsSome(calls[1].window) /\ calls[1].window = window
        /\ calls[1].wgpu = None
        /\ calls[1].arg = << n_suspends >>

\* A suspend signal handled while a bundle was installed.
C11_Witness ==
    /\ event.ev = "suspended"
    /\ installed # {}
    /\ Called("suspended") # {}

\* A builder-ready message is being handled (and the window unwrap succeeds).
ReadyStep ==
    /\ proxy # << >>
    /\ Head(proxy).type = "WgpuReady"
    /\ proxy' = Tail(proxy)
    /\ event'.ev = "user_event"
    /\ crashed' = "no"

\* C12: the application's resumed callback is dispatched only by the handling
\* of a builder-ready message, never by the host's resume signal; that step
\* installs the delivered bundle in place of any previous one, then calls
\* resumed exactly once with window and bundle available, then requests a
\* redraw.
C12_ResumedOnlyOnReady ==
    /\ [](Called("resumed") # {} => event = Event("user_event", << >>))
    /\ [][ReadyStep =>
            /\ wgpu' = Head(proxy).wgpu
            /\ IsSome(window')
            /\ calls' = << Call("resumed", window', wgpu', << >>),
                           Call("request_redraw", window', None, << >>) >>]_vars

\* A ready message handled while another bundle was installed, no suspend
\* signal in between.
C12_Witness ==
    /\ event = Event("user_event", << >>)
    /\ n_suspends = 0
    /\ Cardinality(installed) = 2
    /\ Unwrap(wgpu).id = 2

\* UserEventSender::send_event is being called.
SendStep == event'.ev = "send_event" /\ n_sends' = n_sends + 1

\* A custom event is being handed to the handler.
CustomStep ==
    /\ proxy # << >>
    /\ Head(proxy).type = "Custom"
    /\ proxy' = Tail(proxy)
    /\ event'.ev = "user_event"

Stopped == loop = "exited" \/ crashed # "no"

\* C13: a custom event sent after the loop has shut down comes back to the
\* caller in a recoverable error, without ending the process and without
\* changing the orchestration state; sent while the loop is alive, it is
\* accepted and, as long as the loop keeps running, delivered to the
\* user-event callback.
C13_SendAfterExitRecoverable ==
    /\ [](event.ev = "send_event" =>
            /\ crashed = "no"
            /\ sent = Some([ok |-> loop = "running", e |-> event.arg[1]]))
    /\ [][SendStep /\ loop = "exited" =>
            UNCHANGED << window, wgpu, suspend_count, proxy, inflight, loop,
                         crashed >>]_vars
    /\ [][SendStep /\ loop = "running" =>
            proxy' = Append(proxy, Custom(event'.arg[1]))]_vars
    /\ \A e \in Payloads :
          (\E i \in DOMAIN proxy : proxy[i] = Custom(e))
              ~> (\/ Stopped
                  \/ /\ event = Event("user_event", << e >>)
                     /\ Called("user_event") # {})

\* A send refused by the closed loop.
C13_Witness ==
    /\ event.ev = "send_event"
    /\ loop = "exited"
    /\ IsSome(sent)
    /\ ~Unwrap(sent).ok

(***************************************************************************)
(* C14: whenever the exiting callback is invoked, the context it receives  *)
(* has both the window and the graphics bundle available, whatever the     *)
(* lifecycle state the exit is requested from.                             *)
(***************************************************************************)
C14_ExitingHasWindowAndWgpu ==
    \A i \in Called("exiting") :
        /\ IsSome(calls[i].window)
        /\ IsSome(calls[i].wgpu)

(***************************************************************************)
(* C15: in the run resume, ready, Resized(800, 600), RedrawRequested,      *)
(* suspend, resume, ready, the observable steps come in this order:        *)
(* resumed(window, bundle tagged 0) only when the first ready message is   *)
(* handled; the surface reconfigured to (800, 600) and a redraw requested, *)
(* then window_event(Resized); redraw(window, bundle), then                *)
(* window_event(RedrawRequested); the bundle dropped and the counter set   *)
(* to 1, then suspended(window, no bundle); at last resumed(window,        *)
(* bundle tagged 1).                                                       *)
(***************************************************************************)
C15_ScenarioOrder ==
    /\ Called("resumed") # {} => event = Event("user_event", << >>)
    /\ event = Event("user_event", << >>) =>
          /\ IsSome(window) /\ IsSome(wgpu)
          /\ Unwrap(wgpu).suspend_count = n_suspends
          /\ installed = {<< k, k - 1 >> : k \in 1 .. n_suspends + 1}
          /\ calls = << Call("resumed", window, wgpu, << >>),
                        Call("request_redraw", window, None, << >>) >>
    /\ event.ev \in {"init", "resumed", "build_complete"} =>
          /\ Called("resumed") = {}
          /\ Cardinality(installed) = n_suspends
    /\ event = Event("Resized", ScenarioSize) =>
          /\ IsSome(wgpu)
          /\ Unwrap(wgpu).config = ScenarioSize
          /\ Unwrap(wgpu).suspend_count = 0
          /\ calls = << Call("configure", window, wgpu, ScenarioSize),
                        Call("request_redraw", window, None, << >>),
                        Call("window_event", window, wgpu, << "Resized" >>) >>
    /\ event.ev = "RedrawRequested" =>
          /\ IsSome(wgpu)
          /\ Unwrap(wgpu).config = ScenarioSize
          /\ calls = << Call("redraw", window, wgpu, << >>),
                        Call("window_event", window, wgpu, << "RedrawRequested" >>) >>
    /\ event.ev = "suspended" =>
          /\ wgpu = None
          /\ suspend_count = 1
          /\ calls = << Call("suspended", window, None, << 1 >>) >>

C15_Witness ==
    /\ event = Event("user_event", << >>)
    /\ n_resumes = 2
    /\ n_suspends = 1
    /\ suspend_count = 1
    /\ installed = {<< 1, 0 >>, << 2, 1 >>}
    /\ Unwrap(wgpu).suspend_count = 1
    /\ Unwrap(wgpu).config = ScenarioSize

(***************************************************************************)
(* C16: at any time at most one graphics bundle exists, counting the one   *)
(* installed in the handler and the ones built whose ready message has not *)
(* been handled yet, under every sequence of resume and suspend signals.   *)
(***************************************************************************)
BundlesInProxy == {i \in DOMAIN proxy : proxy[i].type = "WgpuReady"}

BundlesAlive == (IF IsSome(wgpu) THEN 1 ELSE 0) + Cardinality(BundlesInProxy)

C16_AtMostOneBundle == BundlesAlive <= 1

(***************************************************************************)
(* C17: every resume signal launches exactly one build, whether or not a   *)
(* bundle is installed or a build is in flight, tagged with the suspend    *)
(* counter's value as the signal is handled; no build is cancelled: while  *)
(* the process and the loop live, each resume signal is followed by        *)
(* exactly one resumed callback whose bundle carries that tag, and the     *)
(* resumed callbacks never outnumber the resume signals.                   *)
(***************************************************************************)
ResumeStep ==
    /\ event'.ev = "resumed"
    /\ n_resumes' = n_resumes + 1
    /\ crashed' = "no"

InflightIds == {b.id : b \in inflight}

ProxyIds == {Unwrap(proxy[i].wgpu).id : i \in BundlesInProxy}

InstalledIds == {p[1] : p \in installed}

\* The build launched by a resume step: in flight on wasm, built and queued
\* behind everything else on native.
Launched(id, tag) ==
    IF platform = "wasm"
    THEN /\ \E b \in inflight' : b.id = id /\ b.suspend_count = tag
         /\ Cardinality(inflight') = Cardinality(inflight) + 1
         /\ proxy' = proxy
    ELSE /\ Len(proxy') = Len(proxy) + 1
         /\ SubSeq(proxy', 1, Len(proxy)) = proxy
         /\ proxy'[Len(proxy')].type = "WgpuReady"
         /\ Unwrap(proxy'[Len(proxy')].wgpu).id = id
         /\ Unwrap(proxy'[Len(proxy')].wgpu).suspend_count = tag
         /\ inflight' = inflight

C17_EveryResumeBuildsOnce ==
    /\ [][ResumeStep => Launched(n_resumes', suspend_count)]_vars
    /\ [](/\ InflightIds \cap ProxyIds = {}
          /\ InflightIds \cap InstalledIds = {}
          /\ ProxyIds \cap InstalledIds = {}
          /\ Cardinality(ProxyIds) = Cardinality(BundlesInProxy)
          /\ Cardinality(InstalledIds) = Cardinality(installed)
          /\ Cardinality(installed) <= n_resumes
          /\ InflightIds \cup ProxyIds \cup InstalledIds \subseteq 1 .. n_resumes
          /\ crashed = "no" =>
                InflightIds \cup ProxyIds \cup InstalledIds = 1 .. n_resumes
          /\ \A b \in inflight : b.suspend_count = b.epoch
          /\ \A i \in BundlesInProxy :
                Unwrap(proxy[i].wgpu).suspend_count = Unwrap(proxy[i].wgpu).epoch
          /\ IsSome(wgpu) => /\ Unwrap(wgpu).suspend_count = Unwrap(wgpu).epoch
                             /\ << Unwrap(wgpu).id, Unwrap(wgpu).epoch >> \in installed)
    /\ \A id \in 1 .. MaxBuilds :
          (n_resumes >= id) ~> (Stopped \/ id \in InstalledIds)

C17_Witness ==
    /\ loop = "running"
    /\ crashed = "no"
    /\ n_resumes = 2
    /\ installed = {<< 1, 0 >>, << 2, 1 >>}
    /\ IsSome(wgpu)
    /\ Unwrap(wgpu).id = 2

(***************************************************************************)
(* C18: handling a custom event, a device event, a memory warning,         *)
(* about-to-wait, new-events or exiting leaves the window slot, the bundle *)
(* slot and the suspend counter unchanged and calls exactly the one        *)
(* callback of that name; a custom event is passed on with its payload     *)
(* unmodified and a Context holding the current window and bundle.         *)
(***************************************************************************)
Forwarders == {"memory_warning", "about_to_wait", "device_event", "exiting"}

ForwardStep == event'.ev \in Forwarders \cup {"new_events"}

C18_ForwardersLeaveSlots ==
    /\ [][ForwardStep \/ CustomStep =>
            UNCHANGED << window, wgpu, suspend_count >>]_vars
    /\ [][ForwardStep /\ event'.ev \in Forwarders =>
            calls' = << Call(event'.ev, window, wgpu, << >>) >>]_vars
    /\ [][ForwardStep /\ event'.ev = "new_events" =>
            calls' = << Call("new_events", None, None, << >>) >>]_vars
    /\ [][CustomStep =>
            calls' = << Call("user_event", window, wgpu, << Head(proxy).e >>) >>]_vars

C18_Witness ==
    /\ event = Event("user_event", << 2 >>)
    /\ IsSome(window)
    /\ IsSome(wgpu)
    /\ calls = << Call("user_event", window, wgpu, << 2 >>) >>

(***************************************************************************)
(* C19: exiting is terminal.  Once the exit signal has been handled, no    *)
(* window_event, redraw or device_event callback reaches the application   *)
(* any more, and the exiting callback fires exactly once.                  *)
(***************************************************************************)
AfterExit == {"window_event", "redraw", "device_event", "exiting"}

BuildDoneStep ==
    /\ event'.ev = "build_complete"
    /\ inflight' # inflight
    /\ crashed' # "build"

C20_ReadySendFatalAfterExit ==
    /\ [](crashed = "ready_send" =>
            /\ platform = "wasm"
            /\ loop = "exited"
            /\ event.ev = "build_complete")
    /\ [][BuildDoneStep /\ loop = "running" =>
            /\ crashed' = "no"
            /\ Len(proxy') = Len(proxy) + 1
            /\ proxy'[Len(proxy')].type = "WgpuReady"]_vars
    /\ [][BuildDoneStep /\ loop = "exited" =>
            /\ crashed' = "ready_send"
            /\ proxy' = proxy
            /\ sent' = sent]_vars
    /\ [][ResumeStep /\ platform = "native" =>
            /\ loop = "running"
            /\ proxy'[Len(proxy')].type = "WgpuReady"]_vars
    /\ [](event.ev = "send_event" => crashed = "no")

C20_Witness ==
    /\ crashed = "ready_send"
    /\ loop = "exited"
    /\ inflight = {}
    /\ n_resumes > 0

(***************************************************************************)
(* C21: no resize is lost.  Whenever the bundle is present (window events  *)
(* are handled as they arrive, so none is waiting), the size its surface   *)
(* was last configured with is the window's current size clamped to at     *)
(* least 1 per dimension, also when a Resized event was handled while the  *)
(* bundle was absent.                                                      *)
(***************************************************************************)
C21_NoResizeLost ==
    IsSome(wgpu) => Unwrap(wgpu).config = surface_configuration(inner_size)

(***************************************************************************)
(* C22: the window slot is monotonic.  Once the first resume signal has    *)
(* created the window, no later signal empties or replaces the slot, so    *)
(* every Context built after the first resume has the window and the       *)
(* unwrap of the window in the handlers cannot fail.                       *)
(***************************************************************************)
WithContext ==
    {"resumed", "suspended", "exiting", "memory_warning", "about_to_wait",
     "window_event", "user_event", "device_event", "redraw"}

C22_WindowSlotMonotonic ==
    /\ [][IsSome(window) => window' = window]_vars
    /\ [](n_resumes > 0 /\ crashed # "create_window" => window = Some(1))
    /\ [](crashed # "window_unwrap")
    /\ [](n_resumes > 0 =>
            \A i \in DOMAIN calls :
                calls[i].cb \in WithContext => calls[i].window = Some(1))

C22_Witness ==
    /\ window = Some(1)
    /\ n_resumes = 2
    /\ n_suspends = 2
    /\ event.ev = "exiting"
    /\ calls = << Call("exiting", Some(1), wgpu, << >>) >>

====
